---- MODULE Spec2Model ----
(***************************************************************************)
(* git-keeper client: the submission fetch batch (fetch_submissions.py)    *)
(* and the publish/response-polling session (publish_assignment.py), and   *)
(* the GUI's fetched test on a submission (class_information.py).          *)
(***************************************************************************)
EXTENDS Integers, Sequences, FiniteSets, TLC

\* ----------------------------------------------------------------- bounds
\* number of repositories of one assignment's batch: target 1 is the reports
\* repository, targets 2..NumTargets are the students of the roster
NumTargets == 3
\* number of batches run in succession
MaxRuns == 2
\* number of messages the server's message source yields in one session
MaxMsgs == 3
\* largest response_timeout a poller is constructed with
MaxTimeout == 2
\* number of is_fetched calls made during one lifetime of the hash cache
MaxCalls == 3
\* number of FetchThread objects the class window creates
MaxThreads == 3
\* largest number of characters of a repository path on the server
MaxPathLen == 3

Targets == 1..NumTargets
Hashes == {"h1", "h2"}
NoHash == "none"

Tags == {"PUBLISH", "OTHER"}
ResponseTypes == {"SUCCESS", "ERROR", "WARNING", "TIMEOUT"}
TerminalTypes == {"SUCCESS", "ERROR", "TIMEOUT"}
Timeouts == 1..MaxTimeout
\* the threads that evaluate Submission.is_fetched: the GUI thread and a
\* FetchThread
Workers == {"gui", "fetch"}
Results == {"none", "True", "False", "AttributeError", "GkeepException"}
Threads == 1..MaxThreads
Assignments == {"hw1", "hw2"}

VARIABLES
    \* ---- local filesystem and server snapshot
    fs,            \* fs[i]: state of target i's local path
    localHead,     \* localHead[i]: HEAD hash of the local repository
    snapshot,      \* snapshot[i]: remote_head_hash the server info supplies
    \* ---- fetch_assignment_submissions
    syncPc,        \* "idle", "running", "done", "aborted"
    nextTarget,    \* next target the batch will process
    run,           \* number of batches started
    outcomes,      \* what the batch reported, one entry per processed target
    cloneCalls,    \* git_clone_remote calls of this batch, per target
    pullCalls,     \* git_pull calls of this batch, per target
    headReads,     \* git_head_hash calls of this batch, per target
    raised,        \* targets whose clone or pull raised in this batch
    startFs,       \* fs when this batch started
    startHead,     \* localHead when this batch started
    startSnapshot, \* snapshot this batch runs with
    prevOutcomes,  \* outcomes of the previous batch
    prevSnapshot,  \* snapshot the previous batch ran with
    \* ---- publish_assignment and its ServerResponsePoller
    pubPc,         \* position in publish_assignment
    pollerState,   \* "None", "Polling", "Terminal"
    pollerTag,     \* tag the poller was constructed with
    timeout,       \* response_timeout the poller was constructed with
    deadline,      \* time after which the poller gives up
    elapsed,       \* time since the poller was constructed
    arrived,       \* messages the message source has yielded
    produced,      \* responses the generator has yielded
    surfaced,      \* what publish_assignment printed, one entry per response
    pollError,     \* the generator raised ServerInterfaceError
    eventLog,      \* PUBLISH events written to the server's event log
    \* ---- Submission.is_fetched and the FetchedHashCache
    fetchedPathKnown, \* assignment.fetched_path is not None
    hashCache,     \* hashCache[i]: hash cached for target i's path, or NoHash
    prevCache,     \* the cache as its previous lifetime left it
    cacheRun,      \* number of the cache's lifetime
    wpc,           \* wpc[w]: position of worker w in is_fetched
    wpath,         \* wpath[w]: target whose submission w is testing
    wlocal,        \* wlocal[w]: local_hash of w's call
    wresult,       \* wresult[w]: how w's last call ended
    cacheReads,    \* git_head_hash calls of is_fetched, per target
    calls,         \* is_fetched calls made during this lifetime
    \* ---- several ServerResponsePollers, one per operation tag
    now,           \* the clock all pollers read
    pState,        \* pState[tag]: "None", "Polling", "Terminal"
    pStart,        \* pStart[tag]: the time the poller measures from
    pBorn,         \* pBorn[tag]: the time the poller was constructed at
    pTimeout,      \* pTimeout[tag]: its response_timeout
    pProduced,     \* pProduced[tag]: responses its generator has yielded
    pEnd,          \* pEnd[tag]: the time it reached Terminal at
    yielded,       \* number of messages the message source has yielded
    \* ---- cancellation
    cancelledAt,   \* messages arrived when the client cancelled the poller,
                   \* -1 while it has not
    cancelAt,      \* nextTarget when the batch was asked to stop, 0 while it
                   \* has not been
    \* ---- build_clone_url
    urlArgs,       \* server_username, server_host, server_ssh_port and path
    url,           \* the clone URL built, as its sequence of parts
    \* ---- FetchThread
    tpc,           \* tpc[t]: position of thread t in run
    tAssignment,   \* tAssignment[t]: assignment added to thread t
    locks,         \* locks[t]: thread t's own QMutex is held
    thread_count,  \* ClassWindow.thread_count
    fetch_message, \* lines of ClassWindow.fetch_message
    \* ---- targets synchronized by concurrent workers
    cStatus,       \* cStatus[i]: "pending", "inflight", "done"
    cOutcome,      \* cOutcome[i]: outcome recorded for target i
    cInflight,     \* cInflight[i]: transport mutations in progress on i's path
    cOrder,        \* targets in the order their work was completed
    \* ---- fetch_submissions
    fsPc,          \* position in fetch_submissions
    fsName,        \* the assignment_name argument
    fsList,        \* info.assignment_list(class_name)
    destDir,       \* the destination path is a directory
    asked,         \* answers given to the confirmation prompt
    fsTodo,        \* assignments still to fetch
    fsFetched,     \* assignments fetch_assignment_submissions was called for
    fsTransport,   \* clone and pull calls issued
    \* ---- GlobalInfo and ClassWindowInfo
    serverVer,     \* version of the information the server holds
    connected,     \* GlobalInfo._connected
    gInfo,         \* version of global_info.info, 0 while it is not set
    wPc,           \* "none", "ready" or "failed": the ClassWindowInfo
    wInfo,         \* version of ClassWindowInfo.info, 0 while it is not set
    class_list,    \* ClassWindowInfo.class_list
    current_class, \* ClassWindowInfo.current_class
    aTable,        \* ClassWindowInfo.current_assignment_table
    sTable,        \* ClassWindowInfo.current_submission_table
    sorting_order  \* ClassWindowInfo.sorting_order

syncVars == <<fs, localHead, snapshot, syncPc, nextTarget, run, outcomes,
              cloneCalls, pullCalls, headReads, raised, startFs, startHead,
              startSnapshot, prevOutcomes, prevSnapshot>>
pollVars == <<pubPc, pollerState, pollerTag, timeout, deadline, elapsed,
              arrived, produced, surfaced, pollError>>
cacheVars == <<fetchedPathKnown, hashCache, prevCache, cacheRun, wpc, wpath,
               wlocal, wresult, cacheReads, calls>>
multiVars == <<now, pState, pStart, pBorn, pTimeout, pProduced, pEnd,
               yielded>>
cancelVars == <<cancelledAt, cancelAt>>
urlVars == <<urlArgs, url>>
threadVars == <<tpc, tAssignment, locks, thread_count, fetch_message>>
concVars == <<cStatus, cOutcome, cInflight, cOrder>>
pubVars == <<eventLog>>
fsubVars == <<fsPc, fsName, fsList, destDir, asked, fsTodo, fsFetched,
              fsTransport>>
guiVars == <<serverVer, connected, gInfo, wPc, wInfo, class_list,
             current_class, aTable, sTable, sorting_order>>
vars == <<fs, localHead, snapshot, syncPc, nextTarget, run, outcomes,
          cloneCalls, pullCalls, headReads, raised, startFs, startHead,
          startSnapshot, prevOutcomes, prevSnapshot,
          pubPc, pollerState, pollerTag, timeout, deadline, elapsed,
          arrived, produced, surfaced, pollError,
          fetchedPathKnown, hashCache, prevCache, cacheRun, wpc, wpath,
          wlocal, wresult, cacheReads, calls,
          now, pState, pStart, pBorn, pTimeout, pProduced, pEnd, yielded,
          cancelledAt, cancelAt, urlArgs, url,
          tpc, tAssignment, locks, thread_count, fetch_message,
          cStatus, cOutcome, cInflight, cOrder, eventLog,
          fsPc, fsName, fsList, destDir, asked, fsTodo, fsFetched,
          fsTransport,
          serverVer, connected, gInfo, wPc, wInfo, class_list,
          current_class, aTable, sTable, sorting_order>>

\* ------------------------------------------------------------------- Init
\* state of a local path: "absent" (no directory), "dir" (a directory that
\* is not a git repository), "repo" (a repository whose HEAD can be read),
\* "broken" (a repository whose HEAD cannot be read: git_head_hash raises
\* GkeepException); a path holds a HEAD hash exactly when it is a "repo"
LocalStates ==
    {<<"absent", NoHash>>, <<"dir", NoHash>>, <<"broken", NoHash>>}
        \cup {<<"repo", h>> : h \in Hashes}

Zero == [i \in Targets |-> 0]

\* nothing fetched, no batch started
SyncStart ==
    /\ snapshot = [i \in Targets |-> "h1"]
    /\ syncPc = "idle"
    /\ nextTarget = 1
    /\ run = 0
    /\ outcomes = << >>
    /\ cloneCalls = Zero
    /\ pullCalls = Zero
    /\ headReads = Zero
    /\ raised = {}
    /\ startFs = fs
    /\ startHead = localHead
    /\ startSnapshot = snapshot
    /\ prevOutcomes = << >>
    /\ prevSnapshot = snapshot

\* publish_assignment has just been called, no poller exists
PublishStart ==
    /\ pubPc = "parse"
    /\ pollerState = "None"
    /\ pollerTag = "PUBLISH"
    /\ timeout = 1
    /\ deadline = 1
    /\ elapsed = 0
    /\ arrived = << >>
    /\ produced = << >>
    /\ surfaced = << >>
    /\ pollError = FALSE

\* no submission has been tested, the cache is empty
CacheStart ==
    /\ hashCache = [i \in Targets |-> NoHash]
    /\ prevCache = [i \in Targets |-> NoHash]
    /\ cacheRun = 1
    /\ wpc = [w \in Workers |-> "idle"]
    /\ wpath = [w \in Workers |-> 1]
    /\ wlocal = [w \in Workers |-> NoHash]
    /\ wresult = [w \in Workers |-> "none"]
    /\ cacheReads = Zero
    /\ calls = 0

\* no poller has been constructed
MultiStart ==
    /\ now = 0
    /\ pState = [tag \in Tags |-> "None"]
    /\ pStart = [tag \in Tags |-> 0]
    /\ pBorn = [tag \in Tags |-> 0]
    /\ pTimeout = [tag \in Tags |-> 1]
    /\ pProduced = [tag \in Tags |-> << >>]
    /\ pEnd = [tag \in Tags |-> 0]
    /\ yielded = 0

\* nothing cancelled, no URL built, no thread created, no worker started
RestStart ==
    /\ cancelledAt = -1
    /\ cancelAt = 0
    /\ url = << >>
    /\ tpc = [t \in Threads |-> "none"]
    /\ tAssignment = [t \in Threads |-> "None"]
    /\ locks = [t \in Threads |-> FALSE]
    /\ thread_count = 0
    /\ fetch_message = << >>
    /\ eventLog = 0
    /\ cStatus = [i \in Targets |-> "pending"]
    /\ cOutcome = [i \in Targets |-> [tag |-> "none", detail |-> "none"]]
    /\ cInflight = Zero
    /\ cOrder = << >>

\* fetch_submissions has not been called
FsubStart ==
    /\ fsPc = "dir"
    /\ fsName = "all"
    /\ fsList = << >>
    /\ destDir = TRUE
    /\ asked = << >>
    /\ fsTodo = << >>
    /\ fsFetched = << >>
    /\ fsTransport = 0

NoClass == [name |-> "None", ver |-> 0]
NoTable == [ver |-> 0, col |-> 0, order |-> 0]

\* GlobalInfo.__init__ and the attributes ClassWindowInfo.__init__ sets
\* before it connects
GuiStart ==
    /\ serverVer = 1
    /\ connected = FALSE
    /\ gInfo = 0
    /\ wPc = "none"
    /\ wInfo = 0
    /\ class_list = << >>
    /\ current_class = NoClass
    /\ aTable = NoTable
    /\ sTable = NoTable
    /\ sorting_order = <<0, 0>>

\* the configuration and the server path of the specification's example
ExampleArgs ==
    [user |-> "prof", host |-> "cs.example.edu", port |-> "2222",
     path |-> <<"/", "home/prof/class/hw1">>]

\* the fetch batch starts from any state of the local paths
Init ==
    /\ \E st \in [Targets -> LocalStates] :
          /\ fs = [i \in Targets |-> st[i][1]]
          /\ localHead = [i \in Targets |-> st[i][2]]
    /\ SyncStart
    /\ PublishStart
    /\ fetchedPathKnown = TRUE
    /\ CacheStart
    /\ MultiStart
    /\ RestStart
    /\ FsubStart
    /\ GuiStart
    /\ urlArgs = ExampleArgs

\* the publish session does not touch the local paths
PollInit ==
    /\ fs = [i \in Targets |-> "absent"]
    /\ localHead = [i \in Targets |-> NoHash]
    /\ SyncStart
    /\ PublishStart
    /\ fetchedPathKnown = TRUE
    /\ CacheStart
    /\ MultiStart
    /\ RestStart
    /\ FsubStart
    /\ GuiStart
    /\ urlArgs = ExampleArgs

\* ------------------------------------------------- gkeepcore.git_commands
\* os.path.isdir(path)
isdir(i) == fs[i] # "absent"

\* is_non_bare_repo(path)
is_non_bare_repo(i) == fs[i] \in {"repo", "broken"}

\* git_head_hash(path) raises GkeepException when HEAD cannot be read
git_head_hash_raises(i) == fs[i] # "repo"

git_head_hash(i) == localHead[i]

Outcome(tag, detail) == [tag |-> tag, detail |-> detail]

\* the variant whose loop steps over the target after i
Report_skipping(i, tag, detail) ==
    /\ outcomes' = Append(outcomes, Outcome(tag, detail))
    /\ nextTarget' = i + 2
    /\ syncPc' = IF i + 2 > NumTargets THEN "done" ELSE "running"

\* one outcome reported for target i; the batch moves to the next target
Report(i, tag, detail) ==
    /\ outcomes' = Append(outcomes, Outcome(tag, detail))
    /\ nextTarget' = i + 1
    /\ syncPc' = IF i = NumTargets THEN "done" ELSE "running"

SyncFrame == UNCHANGED <<snapshot, run, startFs, startHead, startSnapshot,
                         prevOutcomes, prevSnapshot>>

\* ------------------------------------------------------------- clone_repo
\* the variant without the try/except: the GkeepException leaves the batch
clone_repo_uncaught(i) ==
    /\ cloneCalls' = [cloneCalls EXCEPT ![i] = @ + 1]
    /\ \/ /\ fs' = [fs EXCEPT ![i] = "repo"]
          /\ localHead' = [localHead EXCEPT ![i] = snapshot[i]]
          /\ raised' = raised
          /\ Report(i, "Cloned", "success")
       \/ /\ UNCHANGED <<fs, localHead>>
          /\ raised' = raised \cup {i}
          /\ syncPc' = "aborted"
          /\ UNCHANGED <<outcomes, nextTarget>>
    /\ UNCHANGED <<pullCalls, headReads>>

clone_repo(i) ==
    /\ cloneCalls' = [cloneCalls EXCEPT ![i] = @ + 1]
    /\ \/ \* git_clone_remote succeeds: 'success!'
          /\ fs' = [fs EXCEPT ![i] = "repo"]
          /\ localHead' = [localHead EXCEPT ![i] = snapshot[i]]
          /\ raised' = raised
          /\ Report(i, "Cloned", "success")
       \/ \* git_clone_remote raises GkeepException: 'error cloning'
          /\ UNCHANGED <<fs, localHead>>
          /\ raised' = raised \cup {i}
          /\ Report(i, "Failed", "error cloning")
    /\ UNCHANGED <<pullCalls, headReads>>

\* --------------------------------------------------- pull_repo_if_updated
\* 'exists but is not a git repository': return
\* the variant that replaces the directory by a clone
NotARepo_reclone(i) ==
    /\ cloneCalls' = [cloneCalls EXCEPT ![i] = @ + 1]
    /\ fs' = [fs EXCEPT ![i] = "repo"]
    /\ localHead' = [localHead EXCEPT ![i] = snapshot[i]]
    /\ Report(i, "Cloned", "success")
    /\ UNCHANGED <<pullCalls, headReads, raised>>

NotARepo(i) ==
    /\ Report(i, "Failed", "not a git repository")
    /\ UNCHANGED <<fs, localHead, cloneCalls, pullCalls, headReads, raised>>

\* git_head_hash raised: 'Error reading local git repository', return
ReadError(i) ==
    /\ Report(i, "Failed", "error reading")
    /\ UNCHANGED <<fs, localHead, cloneCalls, pullCalls, raised>>

\* no need to pull if the hashes are the same: return
UpToDate(i) ==
    /\ Report(i, "Skipped", "up to date")
    /\ UNCHANGED <<fs, localHead, cloneCalls, pullCalls, raised>>

\* the variant without the try/except around git_pull
PullNewContent_uncaught(i) ==
    /\ pullCalls' = [pullCalls EXCEPT ![i] = @ + 1]
    /\ \/ /\ localHead' = [localHead EXCEPT ![i] = snapshot[i]]
          /\ raised' = raised
          /\ Report(i, "Pulled", "success")
       \/ /\ localHead' = localHead
          /\ raised' = raised \cup {i}
          /\ syncPc' = "aborted"
          /\ UNCHANGED <<outcomes, nextTarget>>
    /\ UNCHANGED <<fs, cloneCalls>>

\* 'Pulling new content in ...': git_pull, which may raise GkeepException
PullNewContent(i) ==
    /\ pullCalls' = [pullCalls EXCEPT ![i] = @ + 1]
    /\ \/ \* 'success!'
          /\ localHead' = [localHead EXCEPT ![i] = snapshot[i]]
          /\ raised' = raised
          /\ Report(i, "Pulled", "success")
       \/ \* the GkeepException is printed
          /\ localHead' = localHead
          /\ raised' = raised \cup {i}
          /\ Report(i, "Failed", "error pulling")
    /\ UNCHANGED <<fs, cloneCalls>>

\* the variant that pulls whatever the two hashes are
pull_repo_always(i) ==
    IF ~is_non_bare_repo(i)
    THEN NotARepo(i)
    ELSE /\ headReads' = [headReads EXCEPT ![i] = @ + 1]
         /\ IF git_head_hash_raises(i)
            THEN ReadError(i)
            ELSE PullNewContent(i)

\* the variant with the comparison of the hashes inverted
pull_repo_if_same(i) ==
    IF ~is_non_bare_repo(i)
    THEN NotARepo(i)
    ELSE /\ headReads' = [headReads EXCEPT ![i] = @ + 1]
         /\ IF git_head_hash_raises(i)
            THEN ReadError(i)
            ELSE IF git_head_hash(i) # snapshot[i]
            THEN UpToDate(i)
            ELSE PullNewContent(i)

\* the variant that pulls when the local HEAD cannot be read
pull_repo_on_read_error(i) ==
    IF ~is_non_bare_repo(i)
    THEN NotARepo(i)
    ELSE /\ headReads' = [headReads EXCEPT ![i] = @ + 1]
         /\ IF ~git_head_hash_raises(i) /\ git_head_hash(i) = snapshot[i]
            THEN UpToDate(i)
            ELSE PullNewContent(i)

pull_repo_if_updated(i) ==
    IF ~is_non_bare_repo(i)
    THEN NotARepo(i)
    ELSE /\ headReads' = [headReads EXCEPT ![i] = @ + 1]
         /\ IF git_head_hash_raises(i)
            THEN ReadError(i)
            ELSE IF git_head_hash(i) = snapshot[i]
            THEN UpToDate(i)
            ELSE PullNewContent(i)

\* the variant that clones whenever the path is not a repository
SyncTarget_clone_unless_repo(i) ==
    IF is_non_bare_repo(i) THEN pull_repo_if_updated(i) ELSE clone_repo(i)

\* the variant that remembers the targets that failed in the previous
\* batch and does not try them again
SyncTarget_skip_failed(i) ==
    IF i <= Len(prevOutcomes) /\ prevOutcomes[i].tag = "Failed"
    THEN /\ Report(i, "Failed", "failed before")
         /\ UNCHANGED <<fs, localHead, cloneCalls, pullCalls, headReads,
                        raised>>
    ELSE IF isdir(i) THEN pull_repo_if_updated(i) ELSE clone_repo(i)

\* the variant without the os.path.isdir test
SyncTarget_always_pull(i) == pull_repo_if_updated(i)

\* the variant with the two branches swapped
SyncTarget_swapped(i) ==
    IF isdir(i) THEN clone_repo(i) ELSE pull_repo_if_updated(i)

\* pull if the repo already exists, clone otherwise
SyncTarget(i) ==
    IF isdir(i) THEN pull_repo_if_updated(i) ELSE clone_repo(i)

\* -------------------------------------------- fetch_assignment_submissions
\* entry of the batch: a fresh outcome list for this assignment
BatchStart ==
    /\ syncPc \in {"idle", "done"}
    /\ run < MaxRuns
    /\ run' = run + 1
    /\ syncPc' = "running"
    /\ nextTarget' = 1
    /\ prevOutcomes' = outcomes
    /\ prevSnapshot' = startSnapshot
    /\ outcomes' = << >>
    /\ cloneCalls' = Zero
    /\ pullCalls' = Zero
    /\ headReads' = Zero
    /\ raised' = {}
    /\ startFs' = fs
    /\ startHead' = localHead
    /\ startSnapshot' = snapshot
    /\ UNCHANGED <<fs, localHead, snapshot>>
    /\ UNCHANGED <<pollVars, cacheVars, multiVars, cancelVars, urlVars,
                   threadVars, concVars, pubVars, fsubVars,
                   guiVars>>

\* the variant that ends the batch when the reports repository fails
FetchReports_giving_up ==
    /\ syncPc = "running"
    /\ nextTarget = 1
    /\ IF isdir(1) /\ git_head_hash_raises(1)
       THEN /\ outcomes' = Append(outcomes, Outcome("Failed", "error reading"))
            /\ syncPc' = "done"
            /\ nextTarget' = NumTargets + 1
            /\ UNCHANGED <<fs, localHead, cloneCalls, pullCalls, headReads,
                           raised>>
       ELSE SyncTarget(1)
    /\ SyncFrame
    /\ UNCHANGED <<pollVars, cacheVars, multiVars, cancelVars, urlVars,
                   threadVars, concVars, pubVars, fsubVars, guiVars>>

\* the reports repository is synchronized first
FetchReports ==
    /\ syncPc = "running"
    /\ nextTarget = 1
    /\ SyncTarget(1)
    /\ SyncFrame
    /\ UNCHANGED <<pollVars, cacheVars, multiVars, cancelVars, urlVars,
                   threadVars, concVars, pubVars, fsubVars,
                   guiVars>>

\* the variant that ends the batch before a student once it has been asked
\* to stop
fetch_student_submission_cancellable(i) ==
    /\ syncPc = "running"
    /\ nextTarget = i
    /\ i > 1
    /\ IF cancelAt > 0
       THEN /\ syncPc' = "done"
            /\ UNCHANGED <<fs, localHead, nextTarget, outcomes, cloneCalls,
                           pullCalls, headReads, raised>>
       ELSE SyncTarget(i)
    /\ SyncFrame
    /\ UNCHANGED <<pollVars, cacheVars, multiVars, cancelVars, urlVars,
                   threadVars, concVars, pubVars, fsubVars,
                   guiVars>>

\* fetch_student_submission, called for each student of info.student_list
fetch_student_submission(i) ==
    /\ syncPc = "running"
    /\ nextTarget = i
    /\ i > 1
    /\ SyncTarget(i)
    /\ SyncFrame
    /\ UNCHANGED <<pollVars, cacheVars, multiVars, cancelVars, urlVars,
                   threadVars, concVars, pubVars, fsubVars,
                   guiVars>>

\* a student (or the grader) pushes to one remote repository between two
\* batches; the next info snapshot carries the new hash
ServerPush(i) ==
    /\ syncPc = "done"
    /\ run < MaxRuns
    /\ snapshot = startSnapshot
    /\ snapshot' = [snapshot EXCEPT ![i] = CHOOSE h \in Hashes : h # @]
    /\ UNCHANGED <<fs, localHead, syncPc, nextTarget, run, outcomes,
                   cloneCalls, pullCalls, headReads, raised, startFs,
                   startHead, startSnapshot, prevOutcomes, prevSnapshot>>
    /\ UNCHANGED <<pollVars, cacheVars, multiVars, cancelVars, urlVars,
                   threadVars, concVars, pubVars, fsubVars,
                   guiVars>>

\* ===================================================== publish_assignment
PollOthers == UNCHANGED <<syncVars, cacheVars, multiVars, cancelVars,
                          urlVars, threadVars, concVars, fsubVars, guiVars>>

PollFrame == PollOthers /\ UNCHANGED pubVars

\* config.parse(): ClientConfigurationError becomes PublishAssignmentError
config_parse ==
    /\ pubPc = "parse"
    /\ pubPc' \in {"connect", "raised"}
    /\ UNCHANGED <<pollerState, pollerTag, timeout, deadline, elapsed,
                   arrived, produced, surfaced, pollError>>
    /\ PollFrame

\* server_interface.connect(): ServerInterfaceError becomes
\* PublishAssignmentError
server_connect ==
    /\ pubPc = "connect"
    /\ pubPc' \in {"checkdir", "raised"}
    /\ UNCHANGED <<pollerState, pollerTag, timeout, deadline, elapsed,
                   arrived, produced, surfaced, pollError>>
    /\ PollFrame

\* the variant that writes the event before it tests the directory
check_assignment_dir_after_event ==
    /\ pubPc = "checkdir"
    /\ pubPc' \in {"create", "raised"}
    /\ eventLog' = eventLog + 1
    /\ UNCHANGED <<pollerState, pollerTag, timeout, deadline, elapsed,
                   arrived, produced, surfaced, pollError>>
    /\ PollOthers

\* server_interface.is_directory(assignment_path)
check_assignment_dir ==
    /\ pubPc = "checkdir"
    /\ pubPc' \in {"create", "raised"}
    /\ UNCHANGED <<pollerState, pollerTag, timeout, deadline, elapsed,
                   arrived, produced, surfaced, pollError>>
    /\ PollFrame

\* the variant that goes on to log the event without a poller
create_poller_not_started ==
    /\ pubPc = "create"
    /\ pubPc' = "log"
    /\ UNCHANGED <<pollerState, pollerTag, timeout, deadline, elapsed,
                   arrived, produced, surfaced, pollError>>
    /\ PollFrame

\* poller = ServerResponsePoller('PUBLISH', response_timeout): the timeout
\* clock starts here
create_poller ==
    /\ pubPc = "create"
    /\ pubPc' = "log"
    /\ pollerState' = "Polling"
    /\ pollerTag' = "PUBLISH"
    /\ \E t \in Timeouts : timeout' = t /\ deadline' = t
    /\ elapsed' = 0
    /\ UNCHANGED <<arrived, produced, surfaced, pollError>>
    /\ PollFrame

\* server_interface.log_event('PUBLISH', payload)
log_event ==
    /\ pubPc = "log"
    /\ \/ \* the event is appended to the log
          /\ pubPc' = "drain"
          /\ eventLog' = eventLog + 1
       \/ \* ServerInterfaceError becomes PublishAssignmentError
          /\ pubPc' = "raised"
          /\ eventLog' = eventLog
    /\ UNCHANGED <<pollerState, pollerTag, timeout, deadline, elapsed,
                   arrived, produced, surfaced, pollError>>
    /\ PollOthers

\* the body of the for loop over poller.response_generator(): what is
\* printed for one response
\* the variant whose WARNING branch prints the success line
publish_report_warning_as_success(type) ==
    CASE type = "SUCCESS" -> <<"published">>
      [] type = "ERROR" -> <<"error">>
      [] type = "WARNING" -> <<"published">>
      [] type = "TIMEOUT" -> <<"unknown">>

\* the variant without the ERROR branch: nothing is printed for an ERROR
publish_report_without_error(type) ==
    CASE type = "SUCCESS" -> <<"published">>
      [] type = "ERROR" -> << >>
      [] type = "WARNING" -> <<"warning">>
      [] type = "TIMEOUT" -> <<"unknown">>

\* the variant whose TIMEOUT branch prints the error lines
publish_report_timeout_as_error(type) ==
    CASE type = "SUCCESS" -> <<"published">>
      [] type = "ERROR" -> <<"error">>
      [] type = "WARNING" -> <<"warning">>
      [] type = "TIMEOUT" -> <<"error">>

\* 'Assignment successfully published' / 'Error publishing response:' /
\* the warning's message / 'Server response timeout. Publish status unknown.'
publish_report(type) ==
    CASE type = "SUCCESS" -> <<"published">>
      [] type = "ERROR" -> <<"error">>
      [] type = "WARNING" -> <<"warning">>
      [] type = "TIMEOUT" -> <<"unknown">>

\* ---------------------------------------------------- ServerResponsePoller
\* the generator yields one response and the caller's loop body handles it
Yield(type) ==
    /\ produced' = Append(produced, type)
    /\ surfaced' = surfaced \o publish_report(type)
    /\ pollerState' = IF type = "WARNING" THEN "Polling" ELSE "Terminal"

\* the poller is blocked in the generator and the deadline has not passed
Waiting == pubPc = "drain" /\ pollerState = "Polling" /\ elapsed <= deadline

\* the variant that restarts the timeout clock at every received message
Receive_resetting_deadline(tag, type) ==
    /\ pollerState # "None"
    /\ pubPc \in {"drain", "returned", "raised"}
    /\ Len(arrived) < MaxMsgs
    /\ arrived' = Append(arrived, [tag |-> tag, type |-> type, at |-> elapsed])
    /\ IF Waiting /\ tag = pollerTag
       THEN Yield(type) /\ deadline' = elapsed + timeout
       ELSE UNCHANGED <<produced, surfaced, pollerState, deadline>>
    /\ UNCHANGED <<pubPc, pollerTag, timeout, elapsed, pollError>>
    /\ PollFrame

\* the variant that emits whatever arrives, without looking at the tag
Receive_any_tag(tag, type) ==
    /\ pollerState # "None"
    /\ pubPc \in {"drain", "returned", "raised"}
    /\ Len(arrived) < MaxMsgs
    /\ arrived' = Append(arrived, [tag |-> tag, type |-> type, at |-> elapsed])
    /\ IF Waiting
       THEN Yield(type)
       ELSE UNCHANGED <<produced, surfaced, pollerState>>
    /\ UNCHANGED <<pubPc, pollerTag, timeout, deadline, elapsed, pollError>>
    /\ PollFrame

\* the message source yields (tag, type): a waiting poller emits it when it
\* carries the poller's tag, anything else is ignored
Receive(tag, type) ==
    /\ pollerState # "None"
    /\ pubPc \in {"drain", "returned", "raised"}
    /\ Len(arrived) < MaxMsgs
    /\ arrived' = Append(arrived, [tag |-> tag, type |-> type, at |-> elapsed])
    /\ IF Waiting /\ tag = pollerTag
       THEN Yield(type)
       ELSE UNCHANGED <<produced, surfaced, pollerState>>
    /\ UNCHANGED <<pubPc, pollerTag, timeout, deadline, elapsed, pollError>>
    /\ PollFrame

\* the variant that gives up as soon as the deadline is reached
PollTimeout_at_deadline ==
    /\ pubPc = "drain"
    /\ pollerState = "Polling"
    /\ elapsed >= deadline
    /\ Yield("TIMEOUT")
    /\ UNCHANGED <<pubPc, pollerTag, timeout, deadline, elapsed, arrived,
                   pollError>>
    /\ PollFrame

\* the elapsed time since the poller started exceeds the timeout: one
\* synthetic TIMEOUT response
PollTimeout ==
    /\ pubPc = "drain"
    /\ pollerState = "Polling"
    /\ elapsed > deadline
    /\ Yield("TIMEOUT")
    /\ UNCHANGED <<pubPc, pollerTag, timeout, deadline, elapsed, arrived,
                   pollError>>
    /\ PollFrame

\* one time unit passes while the poller waits; an expired deadline is acted
\* on before more time passes
Tick ==
    /\ pollerState = "Polling"
    /\ elapsed <= deadline
    /\ elapsed' = elapsed + 1
    /\ UNCHANGED <<pubPc, pollerState, pollerTag, timeout, deadline, arrived,
                   produced, surfaced, pollError>>
    /\ PollFrame

\* the generator raises ServerInterfaceError: 'Server communication error'
poll_comm_error ==
    /\ pubPc = "drain"
    /\ pollerState = "Polling"
    /\ pollError' = TRUE
    /\ pollerState' = "Terminal"
    /\ pubPc' = "raised"
    /\ UNCHANGED <<pollerTag, timeout, deadline, elapsed, arrived, produced,
                   surfaced>>
    /\ PollFrame

\* the generator is exhausted: the for loop ends and the function returns
publish_return ==
    /\ pubPc = "drain"
    /\ pollerState = "Terminal"
    /\ pubPc' = "returned"
    /\ UNCHANGED <<pollerState, pollerTag, timeout, deadline, elapsed,
                   arrived, produced, surfaced, pollError>>
    /\ PollFrame

ServerTypes == {"SUCCESS", "ERROR", "WARNING"}

PollNext ==
    \/ config_parse
    \/ server_connect
    \/ check_assignment_dir
    \/ create_poller
    \/ log_event
    \/ \E tag \in Tags, type \in ServerTypes : Receive(tag, type)
    \/ PollTimeout
    \/ Tick
    \/ poll_comm_error
    \/ publish_return

PollSpec == PollInit /\ [][PollNext]_vars

PollFairSpec == PollInit /\ [][PollNext]_vars /\ WF_vars(Tick) /\ WF_vars(PollTimeout)

\* ------------------------------------------- cancellation of the poller
\* the variant that notes the disconnection and leaves the poller waiting
poller_cancel_noted_only ==
    /\ pubPc = "drain"
    /\ pollerState = "Polling"
    /\ cancelledAt = -1
    /\ cancelledAt' = Len(arrived)
    /\ UNCHANGED <<pubPc, pollerState, pollerTag, timeout, deadline, elapsed,
                   arrived, produced, surfaced, pollError>>
    /\ UNCHANGED <<syncVars, cacheVars, multiVars, cancelAt, urlVars,
                   threadVars, concVars, pubVars, fsubVars,
                   guiVars>>

\* the client disconnects while the poller is still Polling: the generator
\* ends without a further response
poller_cancel ==
    /\ pubPc = "drain"
    /\ pollerState = "Polling"
    /\ cancelledAt = -1
    /\ cancelledAt' = Len(arrived)
    /\ pollerState' = "Terminal"
    /\ UNCHANGED <<pubPc, pollerTag, timeout, deadline, elapsed, arrived,
                   produced, surfaced, pollError>>
    /\ UNCHANGED <<syncVars, cacheVars, multiVars, cancelAt, urlVars,
                   threadVars, concVars, pubVars, fsubVars,
                   guiVars>>

CancelNext ==
    \/ config_parse
    \/ server_connect
    \/ check_assignment_dir
    \/ create_poller
    \/ log_event
    \/ \E tag \in Tags, type \in ServerTypes : Receive(tag, type)
    \/ PollTimeout
    \/ Tick
    \/ poll_comm_error
    \/ publish_return
    \/ poller_cancel

CancelSpec == PollInit /\ [][CancelNext]_vars

Next ==
    \/ BatchStart
    \/ FetchReports
    \/ \E i \in Targets : fetch_student_submission(i)
    \/ \E i \in Targets : ServerPush(i)

Spec == Init /\ [][Next]_vars

\* ------------------------------------------- a batch that is asked to stop
\* one target's local path is in any state, the others have not been fetched
BatchInit ==
    /\ \E j \in Targets : \E st \in LocalStates :
          /\ fs = [i \in Targets |-> IF i = j THEN st[1] ELSE "absent"]
          /\ localHead = [i \in Targets |-> IF i = j THEN st[2] ELSE NoHash]
    /\ SyncStart
    /\ PublishStart
    /\ fetchedPathKnown = TRUE
    /\ CacheStart
    /\ MultiStart
    /\ RestStart
    /\ FsubStart
    /\ GuiStart
    /\ urlArgs = ExampleArgs

\* the user asks the running batch to stop; cancelAt records the batch and
\* the target that was next at that moment
request_cancel ==
    /\ syncPc = "running"
    /\ cancelAt = 0
    /\ cancelAt' = (run - 1) * NumTargets + nextTarget
    /\ UNCHANGED <<syncVars, pollVars, cacheVars, multiVars, cancelledAt,
                   urlVars, threadVars, concVars, pubVars, fsubVars,
                   guiVars>>

BatchCancelNext ==
    \/ BatchStart
    \/ FetchReports
    \/ \E i \in Targets : fetch_student_submission(i)
    \/ request_cancel

BatchCancelSpec == BatchInit /\ [][BatchCancelNext]_vars

\* ------------------------------------------------------- build_clone_url
\* the pieces a server path is made of, and the paths of up to MaxPathLen
\* pieces
PathParts == {"/", "home", "hw1"}
Paths == UNION {[1..n -> PathParts] : n \in 0..MaxPathLen}
UrlArgs ==
    [user : {"prof", "ta"}, host : {"cs.example.edu"},
     port : {"22", "2222"}, path : Paths]

\* the variant that joins the path to the port as os.path.join would, with
\* a single slash
build_clone_url_normalized(args) ==
    <<"ssh://", args.user, "@", args.host, ":", args.port, "/">>
        \o (IF args.path # << >> /\ Head(args.path) = "/"
            THEN Tail(args.path)
            ELSE args.path)

\* 'ssh://{0}@{1}:{2}/{3}'.format(username, host, port, path): the text as
\* the sequence of its pieces
build_clone_url(args) ==
    <<"ssh://", args.user, "@", args.host, ":", args.port, "/">>
        \o args.path

UrlInit ==
    /\ fs = [i \in Targets |-> "absent"]
    /\ localHead = [i \in Targets |-> NoHash]
    /\ SyncStart
    /\ PublishStart
    /\ fetchedPathKnown = TRUE
    /\ CacheStart
    /\ MultiStart
    /\ RestStart
    /\ FsubStart
    /\ GuiStart
    /\ urlArgs \in UrlArgs \cup {ExampleArgs}

\* a caller builds the clone URL of its server path
call_build_clone_url ==
    /\ url = << >>
    /\ url' = build_clone_url(urlArgs)
    /\ UNCHANGED <<syncVars, pollVars, cacheVars, multiVars, cancelVars,
                   urlArgs, threadVars, concVars, pubVars, fsubVars,
                   guiVars>>

UrlNext ==
    \/ call_build_clone_url

UrlSpec == UrlInit /\ [][UrlNext]_vars

\* ------------------------------------------------------------ FetchThread
ThreadFrame ==
    UNCHANGED <<syncVars, pollVars, cacheVars, multiVars, cancelVars,
                urlVars, concVars, pubVars, fsubVars, guiVars>>

\* the threads ClassWindow.fetch has created so far
Created == {t \in Threads : tpc[t] # "none"}

\* the variant that clears the fetch message at every fetch
ClassWindow_fetch_clearing(a) ==
    /\ Cardinality(Created) < MaxThreads
    /\ LET t == Cardinality(Created) + 1 IN
          /\ tpc' = [tpc EXCEPT ![t] = "started"]
          /\ tAssignment' = [tAssignment EXCEPT ![t] = a]
          /\ locks' = [locks EXCEPT ![t] = FALSE]
    /\ fetch_message' = <<a>>
    /\ thread_count' = thread_count + 1
    /\ ThreadFrame

\* ClassWindow.fetch for one assignment: a new FetchThread on the shared
\* window_info, with a lock of its own, is given the assignment and started;
\* wait(100) returns after 100 ms whether or not the thread has finished
ClassWindow_fetch(a) ==
    /\ Cardinality(Created) < MaxThreads
    /\ LET t == Cardinality(Created) + 1 IN
          /\ tpc' = [tpc EXCEPT ![t] = "started"]
          /\ tAssignment' = [tAssignment EXCEPT ![t] = a]
          /\ locks' = [locks EXCEPT ![t] = FALSE]
    /\ fetch_message' = IF thread_count = 0
                        THEN <<a>>
                        ELSE Append(fetch_message, a)
    /\ thread_count' = thread_count + 1
    /\ ThreadFrame

\* FetchThread.run: self.lock.lock()
run_lock(t) ==
    /\ tpc[t] = "started"
    /\ tAssignment[t] # "None"
    /\ ~locks[t]
    /\ locks' = [locks EXCEPT ![t] = TRUE]
    /\ tpc' = [tpc EXCEPT ![t] = "locked"]
    /\ UNCHANGED <<tAssignment, thread_count, fetch_message>>
    /\ ThreadFrame

\* FetchThread.run: self.info.fetch_assignment(self.assignment)
run_fetch_assignment(t) ==
    /\ tpc[t] = "locked"
    /\ tpc' = [tpc EXCEPT ![t] = "fetched"]
    /\ UNCHANGED <<tAssignment, locks, thread_count, fetch_message>>
    /\ ThreadFrame

\* FetchThread.run: self.info.refresh()
run_refresh(t) ==
    /\ tpc[t] = "fetched"
    /\ tpc' = [tpc EXCEPT ![t] = "refreshed"]
    /\ UNCHANGED <<tAssignment, locks, thread_count, fetch_message>>
    /\ ThreadFrame

\* FetchThread.run: self.lock.unlock(); self.assignment = None
run_unlock(t) ==
    /\ tpc[t] = "refreshed"
    /\ locks' = [locks EXCEPT ![t] = FALSE]
    /\ tAssignment' = [tAssignment EXCEPT ![t] = "None"]
    /\ tpc' = [tpc EXCEPT ![t] = "finished"]
    /\ UNCHANGED <<thread_count, fetch_message>>
    /\ ThreadFrame

\* the finished signal of a thread reaches ClassWindow
show_success_fetch_message(t) ==
    /\ tpc[t] = "finished"
    /\ tpc' = [tpc EXCEPT ![t] = "done"]
    /\ thread_count' = thread_count - 1
    /\ fetch_message' = Append(fetch_message, "Success!")
    /\ UNCHANGED <<tAssignment, locks>>
    /\ ThreadFrame

ThreadNext ==
    \/ \E a \in Assignments : ClassWindow_fetch(a)
    \/ \E t \in Threads : run_lock(t)
    \/ \E t \in Threads : run_fetch_assignment(t)
    \/ \E t \in Threads : run_refresh(t)
    \/ \E t \in Threads : run_unlock(t)
    \/ \E t \in Threads : show_success_fetch_message(t)

ThreadSpec == PollInit /\ [][ThreadNext]_vars

\* ------------------------------------------------------ fetch_submissions
FsubFrame ==
    UNCHANGED <<syncVars, pollVars, cacheVars, multiVars, cancelVars,
                urlVars, threadVars, concVars, pubVars, guiVars>>

\* what the caller can pass as assignment_name
Names == Assignments \cup {"all", "hw9"}

\* what info.assignment_list(class_name) can be
AssignmentLists ==
    {<< >>, <<"hw1">>, <<"hw2">>, <<"hw1", "hw2">>, <<"hw2", "hw1">>}

Range(seq) == {seq[k] : k \in 1..Len(seq)}

\* fetch_submissions is called with any name, for a class with any
\* assignment list, the destination directory existing or not
FetchInit ==
    /\ fs = [i \in Targets |-> "absent"]
    /\ localHead = [i \in Targets |-> NoHash]
    /\ SyncStart
    /\ PublishStart
    /\ fetchedPathKnown = TRUE
    /\ CacheStart
    /\ MultiStart
    /\ RestStart
    /\ GuiStart
    /\ urlArgs = ExampleArgs
    /\ fsPc = "dir"
    /\ fsName \in Names
    /\ fsList \in AssignmentLists
    /\ destDir \in BOOLEAN
    /\ asked = << >>
    /\ fsTodo = << >>
    /\ fsFetched = << >>
    /\ fsTransport = 0

\* the variant that creates a missing directory without asking
create_dir_without_asking ==
    /\ fsPc = "dir"
    /\ destDir' = TRUE
    /\ fsPc' = "list"
    /\ UNCHANGED <<fsName, fsList, asked, fsTodo, fsFetched, fsTransport>>
    /\ FsubFrame

\* create_dir_if_non_existent(destination_path, confirm=True)
create_dir_if_non_existent ==
    /\ fsPc = "dir"
    /\ IF destDir
       THEN /\ fsPc' = "list"
            /\ UNCHANGED <<destDir, asked>>
       ELSE \E answer \in BOOLEAN :
               /\ asked' = Append(asked, answer)
               /\ IF ~answer
                  THEN \* 'Cannot fetch submissions'
                       /\ fsPc' = "raised"
                       /\ destDir' = FALSE
                  ELSE \* os.makedirs, which may raise OSError
                       \E made \in BOOLEAN :
                          /\ destDir' = made
                          /\ fsPc' = IF made THEN "list" ELSE "raised"
    /\ UNCHANGED <<fsName, fsList, fsTodo, fsFetched, fsTransport>>
    /\ FsubFrame

\* the variant that takes the name without looking it up
build_assignments_unchecked ==
    /\ fsPc = "list"
    /\ fsTodo' = IF fsName = "all" THEN fsList ELSE <<fsName>>
    /\ fsPc' = "loop"
    /\ UNCHANGED <<fsName, fsList, destDir, asked, fsFetched, fsTransport>>
    /\ FsubFrame

\* build list of assignments to fetch
build_assignments ==
    /\ fsPc = "list"
    /\ IF fsName = "all"
       THEN fsTodo' = fsList /\ fsPc' = "loop"
       ELSE IF fsName \notin Range(fsList)
       THEN \* 'Assignment ... does not exist in class ...'
            fsTodo' = fsTodo /\ fsPc' = "raised"
       ELSE fsTodo' = <<fsName>> /\ fsPc' = "loop"
    /\ UNCHANGED <<fsName, fsList, destDir, asked, fsFetched, fsTransport>>
    /\ FsubFrame

\* one round of the loop: fetch_assignment_submissions for the next
\* assignment issues between no and NumTargets clone or pull calls, whose
\* errors it catches; creating the assignment's submissions directory may
\* raise before any of them
fetch_next_assignment ==
    /\ fsPc = "loop"
    /\ fsTodo # << >>
    /\ fsFetched' = Append(fsFetched, Head(fsTodo))
    /\ fsTodo' = Tail(fsTodo)
    /\ \/ \E k \in 0..NumTargets :
             /\ fsTransport' = fsTransport + k
             /\ fsPc' = "loop"
       \/ /\ fsTransport' = fsTransport
          /\ fsPc' = "raised"
    /\ UNCHANGED <<fsName, fsList, destDir, asked>>
    /\ FsubFrame

\* the loop has run out of assignments
fetch_submissions_return ==
    /\ fsPc = "loop"
    /\ fsTodo = << >>
    /\ fsPc' = "returned"
    /\ UNCHANGED <<fsName, fsList, destDir, asked, fsTodo, fsFetched,
                   fsTransport>>
    /\ FsubFrame

FetchNext ==
    \/ create_dir_if_non_existent
    \/ build_assignments
    \/ fetch_next_assignment
    \/ fetch_submissions_return

FetchSpec == FetchInit /\ [][FetchNext]_vars

\* ------------------------------------------- GlobalInfo and ClassWindowInfo
GuiFrame ==
    UNCHANGED <<syncVars, pollVars, cacheVars, multiVars, cancelVars,
                urlVars, threadVars, concVars, pubVars, fsubVars>>

\* the classes the server's information lists, and the versions of that
\* information the server goes through
ClassNames == <<"c1", "c2">>
MaxVer == MaxRuns + 1

\* FacultyClass(name): the object keeps the snapshot it was built from
FacultyClass(name, ver) == [name |-> name, ver |-> ver]

\* AssignmentTable(a_class) and SubmissionTable(assignment): built from the
\* lists their class keeps, sorted by column 0 in order 0
NewTable(class) == [ver |-> class.ver, col |-> 0, order |-> 0]

\* the server's information changes
server_update ==
    /\ serverVer < MaxVer
    /\ serverVer' = serverVer + 1
    /\ UNCHANGED <<connected, gInfo, wPc, wInfo, class_list, current_class,
                   aTable, sTable, sorting_order>>
    /\ GuiFrame

\* ClassWindowInfo(): connect, build_tables, change_class(0)
ClassWindowInfo_init ==
    /\ wPc # "ready"
    /\ \E connects \in BOOLEAN, fetches \in BOOLEAN :
          \* GlobalInfo.connect: server_interface.connect(), then
          \* _connected = True, then refresh()
          /\ connected' = (connected \/ connects)
          /\ gInfo' = IF ~connected /\ connects /\ fetches THEN serverVer
                                                            ELSE gInfo
          /\ IF (~connected /\ ~(connects /\ fetches)) \/ gInfo' = 0
             THEN \* ServerInterfaceError from connect or get_info, or
                  \* AttributeError: global_info has no attribute info
                  /\ wPc' = "failed"
                  /\ UNCHANGED <<wInfo, class_list, current_class, aTable,
                                 sTable, sorting_order>>
             ELSE /\ wPc' = "ready"
                  /\ wInfo' = gInfo'
                  /\ class_list' = [k \in 1..Len(ClassNames) |->
                                       FacultyClass(ClassNames[k], gInfo')]
                  /\ current_class' = FacultyClass(ClassNames[1], gInfo')
                  /\ aTable' = NewTable(current_class')
                  /\ sTable' = NoTable
                  /\ sorting_order' = <<0, 0>>
    /\ UNCHANGED serverVer
    /\ GuiFrame

\* ClassWindowInfo.refresh
ClassWindowInfo_refresh ==
    /\ wPc = "ready"
    /\ \/ \* get_info raises ServerInterfaceError
          UNCHANGED <<gInfo, wInfo, class_list, aTable, sTable>>
       \/ /\ gInfo' = serverVer
          /\ wInfo' = serverVer
          /\ class_list' = << >>
          /\ aTable' = NewTable(current_class)
          /\ sTable' = IF sTable # NoTable THEN NewTable(current_class)
                                           ELSE sTable
    /\ UNCHANGED <<serverVer, connected, wPc, current_class, sorting_order>>
    /\ GuiFrame

\* ClassWindowInfo.change_class(index); class_list[index] raises IndexError
\* when the list is too short
change_class(index) ==
    /\ wPc = "ready"
    /\ IF index > Len(class_list)
       THEN UNCHANGED <<current_class, aTable, sTable>>
       ELSE /\ current_class' = class_list[index]
            /\ aTable' = NewTable(class_list[index])
            /\ sTable' = NoTable
    /\ UNCHANGED <<serverVer, connected, gInfo, wPc, wInfo, class_list,
                   sorting_order>>
    /\ GuiFrame

\* ClassWindowInfo.select_assignment(row): a published assignment gets a
\* new submissions table
select_assignment(published) ==
    /\ wPc = "ready"
    /\ sTable' = IF published THEN NewTable(current_class) ELSE sTable
    /\ UNCHANGED <<serverVer, connected, gInfo, wPc, wInfo, class_list,
                   current_class, aTable, sorting_order>>
    /\ GuiFrame

\* the new value of ClassWindowInfo.sorting_order when col is clicked
NewOrder(col) ==
    IF sorting_order[1] = col
    THEN (IF sorting_order[2] = 0 THEN <<col, 1>> ELSE <<col, 0>>)
    ELSE <<col, 0>>

\* ClassWindowInfo.change_assignments_sorting_order(col)
change_assignments_sorting_order(col) ==
    /\ wPc = "ready"
    /\ sorting_order' = NewOrder(col)
    /\ aTable' = [aTable EXCEPT !.col = col, !.order = NewOrder(col)[2]]
    /\ UNCHANGED <<serverVer, connected, gInfo, wPc, wInfo, class_list,
                   current_class, sTable>>
    /\ GuiFrame

\* ClassWindowInfo.change_submissions_sorting_order(col), on the header of
\* a submissions table that is shown
change_submissions_sorting_order(col) ==
    /\ wPc = "ready"
    /\ sTable # NoTable
    /\ sorting_order' = NewOrder(col)
    /\ sTable' = [sTable EXCEPT !.col = col, !.order = NewOrder(col)[2]]
    /\ UNCHANGED <<serverVer, connected, gInfo, wPc, wInfo, class_list,
                   current_class, aTable>>
    /\ GuiFrame

GuiNext ==
    \/ server_update
    \/ ClassWindowInfo_init
    \/ ClassWindowInfo_refresh
    \/ \E index \in 1..Len(ClassNames) : change_class(index)
    \/ \E published \in BOOLEAN : select_assignment(published)
    \/ \E col \in 0..1 : change_assignments_sorting_order(col)
    \/ \E col \in 0..2 : change_submissions_sorting_order(col)

GuiSpec == PollInit /\ [][GuiNext]_vars

\* --------------------------------------------------- Submission.is_fetched
\* states of a fetched submission's path
CacheStates == {<<"repo", h>> : h \in Hashes} \cup {<<"broken", NoHash>>}

\* the targets that are submissions of students
Submissions == Targets \ {1}

\* the GUI has loaded the class information; no submission has been tested;
\* one submission's path is in any state, the others are fetched and up to
\* date
CacheInit ==
    /\ \E j \in Submissions : \E st \in CacheStates :
          /\ fs = [i \in Targets |-> IF i = j THEN st[1] ELSE "repo"]
          /\ localHead = [i \in Targets |-> IF i = j THEN st[2] ELSE "h1"]
    /\ SyncStart
    /\ PublishStart
    /\ fetchedPathKnown \in BOOLEAN
    /\ CacheStart
    /\ MultiStart
    /\ RestStart
    /\ FsubStart
    /\ GuiStart
    /\ urlArgs = ExampleArgs

CacheFrame ==
    UNCHANGED <<fs, snapshot, syncPc, nextTarget, run, outcomes, cloneCalls,
                pullCalls, headReads, raised, startFs, startHead,
                startSnapshot, prevOutcomes, prevSnapshot, pollVars,
                fetchedPathKnown, multiVars, cancelVars, urlVars,
                threadVars, concVars, pubVars, fsubVars,
                   guiVars>>

\* FetchedHashCache.is_cached(path)
is_cached(i) == hashCache[i] # NoHash

\* FetchedHashCache.set_hash(path, hash): the first value recorded for a
\* path stays
set_hash(cache, i, h) ==
    IF cache[i] = NoHash THEN [cache EXCEPT ![i] = h] ELSE cache

\* is_fetched is called on the submission of student i: without a fetched
\* path the answer is False; with the path cached, get_hash is called on
\* local_hash, which is None; otherwise the call goes on to read the HEAD
is_fetched_begin(w, i) ==
    /\ wpc[w] = "idle"
    /\ calls < MaxCalls
    /\ calls' = calls + 1
    /\ wpath' = [wpath EXCEPT ![w] = i]
    /\ wlocal' = [wlocal EXCEPT ![w] = NoHash]
    /\ IF ~fetchedPathKnown
       THEN /\ wresult' = [wresult EXCEPT ![w] = "False"]
            /\ wpc' = wpc
       ELSE IF is_cached(i)
       THEN /\ wresult' = [wresult EXCEPT ![w] = "AttributeError"]
            /\ wpc' = wpc
       ELSE /\ wresult' = [wresult EXCEPT ![w] = "none"]
            /\ wpc' = [wpc EXCEPT ![w] = "read"]
    /\ UNCHANGED <<localHead, hashCache, prevCache, cacheRun, cacheReads>>
    /\ CacheFrame

\* local_hash = git_head_hash(path); its GkeepException is not caught
is_fetched_read(w) ==
    /\ wpc[w] = "read"
    /\ cacheReads' = [cacheReads EXCEPT ![wpath[w]] = @ + 1]
    /\ IF git_head_hash_raises(wpath[w])
       THEN /\ wresult' = [wresult EXCEPT ![w] = "GkeepException"]
            /\ wpc' = [wpc EXCEPT ![w] = "idle"]
            /\ wlocal' = wlocal
       ELSE /\ wlocal' = [wlocal EXCEPT ![w] = git_head_hash(wpath[w])]
            /\ wpc' = [wpc EXCEPT ![w] = "set"]
            /\ wresult' = wresult
    /\ UNCHANGED <<localHead, hashCache, prevCache, cacheRun, wpath, calls>>
    /\ CacheFrame

\* cache.set_hash(path, local_hash); return local_hash == server_hash
is_fetched_set(w) ==
    /\ wpc[w] = "set"
    /\ hashCache' = set_hash(hashCache, wpath[w], wlocal[w])
    /\ wresult' = [wresult EXCEPT ![w] =
                      IF wlocal[w] = snapshot[wpath[w]]
                      THEN "True" ELSE "False"]
    /\ wlocal' = [wlocal EXCEPT ![w] = NoHash]
    /\ wpc' = [wpc EXCEPT ![w] = "idle"]
    /\ UNCHANGED <<localHead, prevCache, cacheRun, wpath, cacheReads, calls>>
    /\ CacheFrame

\* a fetch running meanwhile pulls the new content of target i
concurrent_fetch(i) ==
    /\ i \in Submissions
    /\ fs[i] = "repo"
    /\ localHead[i] # snapshot[i]
    /\ localHead' = [localHead EXCEPT ![i] = snapshot[i]]
    /\ UNCHANGED <<hashCache, prevCache, cacheRun, wpc, wpath, wlocal,
                   wresult, cacheReads, calls>>
    /\ CacheFrame

\* the variant that carries the entries over to the next lifetime
NewCache_keeping ==
    /\ \A w \in Workers : wpc[w] = "idle"
    /\ cacheRun < MaxRuns
    /\ cacheRun' = cacheRun + 1
    /\ prevCache' = hashCache
    /\ hashCache' = hashCache
    /\ wresult' = [w \in Workers |-> "none"]
    /\ wpath' = [w \in Workers |-> 1]
    /\ cacheReads' = Zero
    /\ calls' = 0
    /\ UNCHANGED <<localHead, wpc, wlocal>>
    /\ CacheFrame

\* a new batch begins with a fresh, empty cache
NewCache ==
    /\ \A w \in Workers : wpc[w] = "idle"
    /\ cacheRun < MaxRuns
    /\ cacheRun' = cacheRun + 1
    /\ prevCache' = hashCache
    /\ hashCache' = [i \in Targets |-> NoHash]
    /\ wresult' = [w \in Workers |-> "none"]
    /\ wpath' = [w \in Workers |-> 1]
    /\ cacheReads' = Zero
    /\ calls' = 0
    /\ UNCHANGED <<localHead, wpc, wlocal>>
    /\ CacheFrame

CacheNext ==
    \/ \E w \in Workers : \E i \in Submissions : is_fetched_begin(w, i)
    \/ \E w \in Workers : is_fetched_read(w)
    \/ \E w \in Workers : is_fetched_set(w)
    \/ \E i \in Targets : concurrent_fetch(i)
    \/ NewCache

CacheSpec == CacheInit /\ [][CacheNext]_vars

\* ------------------------------------------ pollers of several operations
\* the clock stops at the latest time a poller can still be waiting
MaxClock == 2 * MaxTimeout + 2

MultiFrame == UNCHANGED <<syncVars, pollVars, cacheVars, cancelVars, urlVars,
                          threadVars, concVars, pubVars, fsubVars,
                   guiVars>>

\* time since the poller for tag started measuring
pElapsed(tag) == now - pStart[tag]

\* the variant with one start time shared by all pollers
poller_start_shared_clock(tag, t) ==
    /\ pState[tag] = "None"
    /\ pState' = [pState EXCEPT ![tag] = "Polling"]
    /\ pStart' = [q \in Tags |-> now]
    /\ pBorn' = [pBorn EXCEPT ![tag] = now]
    /\ pTimeout' = [pTimeout EXCEPT ![tag] = t]
    /\ UNCHANGED <<now, pProduced, pEnd, yielded>>
    /\ MultiFrame

\* ServerResponsePoller(tag, t) is constructed and its operation logged
poller_start(tag, t) ==
    /\ pState[tag] = "None"
    /\ pState' = [pState EXCEPT ![tag] = "Polling"]
    /\ pStart' = [pStart EXCEPT ![tag] = now]
    /\ pBorn' = [pBorn EXCEPT ![tag] = now]
    /\ pTimeout' = [pTimeout EXCEPT ![tag] = t]
    /\ UNCHANGED <<now, pProduced, pEnd, yielded>>
    /\ MultiFrame

\* the message source yields (tag, type): the poller of that tag emits it
\* when it is waiting and its deadline has not passed
source_yield(tag, type) ==
    /\ yielded < MaxMsgs
    /\ yielded' = yielded + 1
    /\ IF pState[tag] = "Polling" /\ pElapsed(tag) <= pTimeout[tag]
       THEN /\ pProduced' = [pProduced EXCEPT ![tag] = Append(@, type)]
            /\ pState' = [pState EXCEPT ![tag] =
                             IF type = "WARNING" THEN "Polling" ELSE "Terminal"]
            /\ pEnd' = [pEnd EXCEPT ![tag] =
                           IF type = "WARNING" THEN @ ELSE now]
       ELSE UNCHANGED <<pProduced, pState, pEnd>>
    /\ UNCHANGED <<now, pStart, pBorn, pTimeout>>
    /\ MultiFrame

\* the poller of tag has waited longer than its timeout: it yields TIMEOUT
poller_timeout(tag) ==
    /\ pState[tag] = "Polling"
    /\ pElapsed(tag) > pTimeout[tag]
    /\ pProduced' = [pProduced EXCEPT ![tag] = Append(@, "TIMEOUT")]
    /\ pState' = [pState EXCEPT ![tag] = "Terminal"]
    /\ pEnd' = [pEnd EXCEPT ![tag] = now]
    /\ UNCHANGED <<now, pStart, pBorn, pTimeout, yielded>>
    /\ MultiFrame

\* time passes while a poller is waiting; a poller past its deadline gives
\* up before time moves on
clock_tick ==
    /\ now < MaxClock
    /\ \E tag \in Tags : pState[tag] = "Polling"
    /\ \A tag \in Tags :
          pState[tag] = "Polling" => pElapsed(tag) <= pTimeout[tag]
    /\ now' = now + 1
    /\ UNCHANGED <<pState, pStart, pBorn, pTimeout, pProduced, pEnd, yielded>>
    /\ MultiFrame

MultiNext ==
    \/ \E tag \in Tags : \E t \in Timeouts : poller_start(tag, t)
    \/ \E tag \in Tags : \E type \in ServerTypes : source_yield(tag, type)
    \/ \E tag \in Tags : poller_timeout(tag)
    \/ clock_tick

MultiPollSpec == PollInit /\ [][MultiNext]_vars

\* ================================================================ claims
\* ---------------------------------------------------- the polling session
TerminalReports == {"published", "error", "unknown"}

\* what the caller is to report for a response of each type
ReportFor ==
    [t \in ResponseTypes |->
        CASE t = "SUCCESS" -> "published"
          [] t = "ERROR" -> "error"
          [] t = "WARNING" -> "warning"
          [] t = "TIMEOUT" -> "unknown"]

CountIn(seq, S) == Cardinality({k \in 1..Len(seq) : seq[k] \in S})

\* only the last element of seq may be in S
OnlyLastIn(seq, S) == \A k \in 1..Len(seq) : seq[k] \in S => k = Len(seq)

RECURSIVE InTimeTypes(_)
InTimeTypes(msgs) ==
    IF msgs = << >> THEN << >>
    ELSE LET m == Head(msgs)
             rest == InTimeTypes(Tail(msgs))
         IN IF m.tag = pollerTag /\ m.at <= timeout
            THEN <<m.type>> \o rest
            ELSE rest

\* seq up to and including its first SUCCESS or ERROR
RECURSIVE UpToFirstTerminal(_)
UpToFirstTerminal(seq) ==
    IF seq = << >> THEN << >>
    ELSE IF Head(seq) \in {"SUCCESS", "ERROR"} THEN <<Head(seq)>>
    ELSE <<Head(seq)>> \o UpToFirstTerminal(Tail(seq))

\* produced without a closing TIMEOUT
BeforeTimeout ==
    IF produced # << >> /\ produced[Len(produced)] = "TIMEOUT"
    THEN SubSeq(produced, 1, Len(produced) - 1)
    ELSE produced

\* C2: the responses emitted before any TIMEOUT are exactly the messages for
\* the polled tag that arrived in time, in arrival order, up to and including
\* the first SUCCESS or ERROR; each is reported by the caller as its type
\* requires; after a WARNING the poller is Polling, after a SUCCESS or ERROR
\* it is Terminal
C2_EmitsInArrivalOrder ==
    (pubPc \in {"drain", "returned"}) =>
        /\ BeforeTimeout = UpToFirstTerminal(InTimeTypes(arrived))
        /\ surfaced = [k \in 1..Len(produced) |-> ReportFor[produced[k]]]
        /\ (produced # << >> /\ produced[Len(produced)] = "WARNING")
              => pollerState = "Polling"
        /\ (produced # << >> /\ produced[Len(produced)] # "WARNING")
              => pollerState = "Terminal"

\* WARNING, WARNING, ERROR arrived for the tag and were emitted as such
C2_Witness ==
    /\ pubPc = "returned"
    /\ produced = <<"WARNING", "WARNING", "ERROR">>
    /\ surfaced = <<"warning", "warning", "error">>

NoTaggedInTime ==
    \A k \in 1..Len(arrived) :
        arrived[k].tag = pollerTag => arrived[k].at > timeout

\* C3: when no message for the polled tag arrives before the elapsed time
\* exceeds the timeout, nothing is produced while the poller is Polling and
\* the finished session produced exactly <<TIMEOUT>>; a TIMEOUT is only ever
\* produced after the deadline has passed, as the last response, and leaves
\* the poller Terminal
C3_TimeoutOnly ==
    /\ (pollerState = "Polling" /\ NoTaggedInTime) => produced = << >>
    /\ (pollerState = "Terminal" /\ ~pollError /\ NoTaggedInTime) =>
          /\ produced = <<"TIMEOUT">>
          /\ elapsed > timeout
    /\ \A k \in 1..Len(produced) :
          produced[k] = "TIMEOUT" =>
              /\ k = Len(produced)
              /\ elapsed > timeout
              /\ pollerState = "Terminal"

\* only messages for another tag arrived in time and the session timed out
C3_Witness ==
    /\ pubPc = "returned"
    /\ produced = <<"TIMEOUT">>
    /\ \E k \in 1..Len(arrived) :
          arrived[k].tag # pollerTag /\ arrived[k].at <= timeout

\* C4: a poller is never Polling more than one time unit past its timeout,
\* whatever it receives; every session that is being drained reaches
\* Terminal; a Terminal poller stays Terminal and produces nothing more
C4_SessionTerminates ==
    /\ [](pollerState = "Polling" => elapsed <= timeout + 1)
    /\ ((pubPc = "drain") ~> (pollerState = "Terminal"))
    /\ [][pollerState = "Terminal" =>
            /\ pollerState' = "Terminal"
            /\ produced' = produced
            /\ surfaced' = surfaced]_vars

\* the server sent a WARNING for the tag at every moment up to the deadline
\* and the session still ended with TIMEOUT
C4_Witness ==
    /\ pollerState = "Terminal"
    /\ Len(produced) = MaxMsgs + 1
    /\ produced[Len(produced)] = "TIMEOUT"
    /\ \A k \in 1..MaxMsgs : produced[k] = "WARNING"
    /\ \E k \in 1..Len(arrived) : arrived[k].at = timeout

\* target i has been processed by the current batch
Processed(i) == i <= Len(outcomes)

BatchEnded == syncPc \in {"done", "aborted"}

\* the outcome of target i as a function of its own local state when the
\* batch started, its own remote hash and the result of its own transport call
IndependentOutcome(i) ==
    CASE startFs[i] = "absent" ->
            IF i \in raised THEN Outcome("Failed", "error cloning")
                            ELSE Outcome("Cloned", "success")
      [] startFs[i] = "dir" -> Outcome("Failed", "not a git repository")
      [] startFs[i] = "broken" -> Outcome("Failed", "error reading")
      [] startFs[i] = "repo" /\ startHead[i] = startSnapshot[i] ->
            Outcome("Skipped", "up to date")
      [] startFs[i] = "repo" /\ startHead[i] # startSnapshot[i] ->
            IF i \in raised THEN Outcome("Failed", "error pulling")
                            ELSE Outcome("Pulled", "success")

TransportFailures ==
    {i \in 1..Len(outcomes) :
        outcomes[i].detail \in {"error cloning", "error pulling"}}

\* C5: a batch in which the clone or pull of some target raised still ends
\* with one outcome per target; the targets whose transport call raised are
\* exactly the ones reported as a failed clone or pull, and every other
\* target has the outcome its own state and its own remote hash determine
C5_PartialFailureIsolation ==
    (BatchEnded /\ raised # {}) =>
        /\ syncPc = "done"
        /\ Len(outcomes) = NumTargets
        /\ TransportFailures = raised
        /\ \A k \in raised : outcomes[k].tag = "Failed"
        /\ \A i \in Targets \ raised : outcomes[i] = IndependentOutcome(i)

\* a finished batch in which exactly one transport call raised, not the last
\* one, and a later target was cloned or pulled
C5_Witness ==
    /\ syncPc = "done"
    /\ Cardinality(raised) = 1
    /\ \E k \in raised : \E j \in Targets :
          j > k /\ outcomes[j].tag \in {"Cloned", "Pulled"}

\* the previous batch ran with the same remote hashes as this one
SnapshotUnchanged == run >= 2 /\ startSnapshot = prevSnapshot

SucceededBefore(i) ==
    /\ i <= Len(prevOutcomes)
    /\ prevOutcomes[i].tag \in {"Cloned", "Pulled", "Skipped"}

\* C6: in a batch that follows another one with an unchanged snapshot, every
\* target that was cloned, pulled or up to date in the previous batch is
\* skipped, and no clone and no pull is issued for it
C6_Idempotence ==
    \A i \in Targets :
        (SnapshotUnchanged /\ SucceededBefore(i) /\ Processed(i)) =>
            /\ outcomes[i].tag = "Skipped"
            /\ cloneCalls[i] = 0
            /\ pullCalls[i] = 0

\* a second batch with an unchanged snapshot has finished, after a first
\* batch that cloned one target and pulled another
C6_Witness ==
    /\ SnapshotUnchanged
    /\ syncPc = "done"
    /\ \E i, j \in Targets :
          /\ prevOutcomes[i].tag = "Cloned"
          /\ prevOutcomes[j].tag = "Pulled"
          /\ outcomes[i].tag = "Skipped"
          /\ outcomes[j].tag = "Skipped"

\* C7: a target whose local repository exists with a HEAD hash equal to the
\* remote hash is skipped: no clone, no pull, the one HEAD read that the
\* comparison needs, and the local repository is left as it was
C7_EqualHashIsNoOp ==
    \A i \in Targets :
        (Processed(i) /\ startFs[i] = "repo"
                      /\ startHead[i] = startSnapshot[i]) =>
            /\ outcomes[i] = Outcome("Skipped", "up to date")
            /\ cloneCalls[i] = 0
            /\ pullCalls[i] = 0
            /\ headReads[i] = 1
            /\ fs[i] = "repo"
            /\ localHead[i] = startHead[i]

C7_Witness ==
    \E i \in Targets :
        /\ Processed(i)
        /\ startFs[i] = "repo"
        /\ startHead[i] = startSnapshot[i]
        /\ outcomes[i].tag = "Skipped"

C9_PullWhenDifferent ==
    \A i \in Targets :
        (Processed(i) /\ startFs[i] = "repo"
                      /\ startHead[i] # startSnapshot[i]) =>
            /\ pullCalls[i] = 1
            /\ cloneCalls[i] = 0
            /\ headReads[i] = 1
            /\ outcomes[i].tag \in {"Pulled", "Failed"}
            /\ outcomes[i].tag = "Pulled" => localHead[i] = startSnapshot[i]
            /\ outcomes[i].tag = "Failed" => localHead[i] = startHead[i]

C9_Witness ==
    \E i \in Targets :
        /\ Processed(i)
        /\ startFs[i] = "repo"
        /\ startHead[i] # startSnapshot[i]
        /\ outcomes[i].tag = "Pulled"
        /\ pullCalls[i] = 1

\* C10 as stated: a local repository whose HEAD cannot be read is pulled
C10_Original ==
    \A i \in Targets :
        (Processed(i) /\ startFs[i] = "broken") => pullCalls[i] = 1

\* C10 (amended): a target whose local repository exists but whose HEAD
\* cannot be read gets no pull and no clone: the read error is reported
\* after the one failed HEAD read and the repository is left as it was
C10_NoPullWhenUnreadable ==
    \A i \in Targets :
        (Processed(i) /\ startFs[i] = "broken") =>
            /\ pullCalls[i] = 0
            /\ cloneCalls[i] = 0
            /\ headReads[i] = 1
            /\ outcomes[i] = Outcome("Failed", "error reading")
            /\ fs[i] = "broken"

C10_Witness ==
    \E i \in Targets :
        /\ Processed(i)
        /\ startFs[i] = "broken"
        /\ outcomes[i].detail = "error reading"
        /\ headReads[i] = 1

OutcomeTags == {"Skipped", "Cloned", "Pulled", "Failed"}

\* the outcome at position k is the one of target k: its tag agrees with the
\* transport calls issued on target k's own path
BelongsTo(k) ==
    /\ outcomes[k].tag \in OutcomeTags
    /\ outcomes[k].tag = "Cloned" =>
          cloneCalls[k] = 1 /\ pullCalls[k] = 0 /\ startFs[k] = "absent"
    /\ outcomes[k].tag = "Pulled" =>
          pullCalls[k] = 1 /\ cloneCalls[k] = 0 /\ startFs[k] = "repo"
    /\ outcomes[k].tag = "Skipped" =>
          pullCalls[k] = 0 /\ cloneCalls[k] = 0 /\ startFs[k] = "repo"
    /\ outcomes[k].tag = "Failed" => cloneCalls[k] + pullCalls[k] <= 1

FailedBefore(i) ==
    /\ run >= 2
    /\ i <= Len(prevOutcomes)
    /\ prevOutcomes[i].tag = "Failed"

C13_NoErrorLeavesTheBatch ==
    /\ syncPc # "aborted"
    /\ syncPc = "running" => nextTarget \in Targets
    /\ \A i \in raised :
          /\ Processed(i)
          /\ outcomes[i].tag = "Failed"
          /\ outcomes[i].detail \in {"error cloning", "error pulling"}
    /\ \A i \in Targets :
          (Processed(i) /\ startFs[i] = "broken") =>
              outcomes[i] = Outcome("Failed", "error reading")

\* a batch finished although a clone, a pull and a HEAD read failed in it
C13_Witness ==
    /\ syncPc = "done"
    /\ \E i, j, k \in Targets :
          /\ outcomes[i].detail = "error cloning"
          /\ outcomes[j].detail = "error pulling"
          /\ outcomes[k].detail = "error reading"

\* what the code decides for a local path in state st with HEAD hash local,
\* given the remote hash: the branches of fetch_student_submission and
\* pull_repo_if_updated
Decision(st, local, remote) ==
    CASE st = "absent" -> "Clone"
      [] st = "dir" -> "Error"
      [] st = "broken" -> "Error"
      [] st = "repo" /\ local = remote -> "NoOp"
      [] st = "repo" /\ local # remote -> "Pull"

\* what was done for a processed target
Done(i) ==
    CASE cloneCalls[i] = 1 /\ pullCalls[i] = 0 -> "Clone"
      [] cloneCalls[i] = 0 /\ pullCalls[i] = 1 -> "Pull"
      [] cloneCalls[i] = 0 /\ pullCalls[i] = 0
            /\ outcomes[i].tag = "Skipped" -> "NoOp"
      [] cloneCalls[i] = 0 /\ pullCalls[i] = 0
            /\ outcomes[i].tag = "Failed" -> "Error"
      [] OTHER -> "Undefined"

OtherTagArrives ==
    /\ Len(arrived') = Len(arrived) + 1
    /\ arrived'[Len(arrived')].tag # pollerTag

RECURSIVE TaggedCount(_)
TaggedCount(msgs) ==
    IF msgs = << >> THEN 0
    ELSE (IF Head(msgs).tag = pollerTag THEN 1 ELSE 0) + TaggedCount(Tail(msgs))

\* C19: a message with another tag changes nothing of the poller: nothing
\* is emitted or reported for it, the poller's state, its deadline and its
\* clock stay as they are; the responses emitted before a TIMEOUT are never
\* more than the messages that arrived with the poller's tag, and the
\* deadline is always the timeout the poller was constructed with
C19_OtherTagsIgnored ==
    /\ [][OtherTagArrives =>
            UNCHANGED <<produced, surfaced, pollerState, deadline, timeout,
                        elapsed>>]_vars
    /\ [](pollerState # "None" =>
            /\ deadline = timeout
            /\ Len(BeforeTimeout) <= TaggedCount(arrived)
            /\ (pollerState = "Polling" => elapsed <= timeout + 1))

\* a SUCCESS for another tag arrived at a waiting poller, which went on to
\* emit the WARNING that arrived for its own tag and is still polling
C19_Witness ==
    /\ pubPc = "drain"
    /\ pollerState = "Polling"
    /\ Len(arrived) = 2
    /\ arrived[1].tag # pollerTag /\ arrived[1].type = "SUCCESS"
    /\ arrived[2].tag = pollerTag /\ arrived[2].type = "WARNING"
    /\ produced = <<"WARNING">>

\* ---------------------------------------------------------- the hash cache
\* worker w has finished a call of is_fetched
Finished(w) == wpc[w] = "idle" /\ wresult[w] # "none"

\* C15 as stated: during one lifetime of the cache the HEAD of a readable
\* path is read at most once however many times is_fetched is called for
\* it, and a call that finds the path cached returns the answer for the
\* cached value
C15_OneReadPerPath ==
    /\ \A i \in Targets : ~git_head_hash_raises(i) => cacheReads[i] <= 1
    /\ \A w \in Workers :
          (Finished(w) /\ fetchedPathKnown /\ is_cached(wpath[w])) =>
              wresult[w] = (IF hashCache[wpath[w]] = snapshot[wpath[w]]
                            THEN "True" ELSE "False")

\* C16 as stated: an entry of the cache is never changed or removed during
\* one lifetime, and every call that has finished for a cached path returned
\* the answer for the value in the cache
C16_WriteOnce ==
    /\ [][cacheRun' = cacheRun =>
            \A i \in Targets : is_cached(i) => hashCache'[i] = hashCache[i]]_vars
    /\ [](\A w \in Workers :
            (Finished(w) /\ fetchedPathKnown /\ is_cached(wpath[w])) =>
                wresult[w] \in {"True", "False"}
                /\ (wresult[w] = "True" <=>
                        hashCache[wpath[w]] = snapshot[wpath[w]]))

\* C17 as stated: when the HEAD of a path cannot be read, the call answers
\* False without raising, and the HEAD of that path is read only once
\* during the lifetime of the cache
C17_UnreadableIsCached ==
    \A i \in Targets :
        (fetchedPathKnown /\ git_head_hash_raises(i)) =>
            /\ cacheReads[i] <= 1
            /\ \A w \in Workers :
                  (Finished(w) /\ wpath[w] = i) => wresult[w] = "False"

Touches(tag) ==
    \/ pState'[tag] # pState[tag]
    \/ pProduced'[tag] # pProduced[tag]
    \/ pStart'[tag] # pStart[tag]
    \/ pTimeout'[tag] # pTimeout[tag]

\* C20: with a poller per tag running at the same time, a poller is never
\* Polling more than one time unit past its own timeout counted from its own
\* construction, a TIMEOUT is produced exactly when that time has passed,
\* a Terminal poller has produced exactly one terminal response, its last,
\* and no step touches two pollers: what one poller receives or emits
\* leaves the state, the responses and the clock of the other as they were
C20_IndependentPollers ==
    /\ [](\A tag \in Tags :
            /\ pState[tag] = "Polling" => now - pBorn[tag] <= pTimeout[tag] + 1
            /\ pState[tag] # "None" => pStart[tag] = pBorn[tag]
            /\ \A k \in 1..Len(pProduced[tag]) :
                  pProduced[tag][k] = "TIMEOUT" =>
                      pEnd[tag] - pBorn[tag] = pTimeout[tag] + 1
            /\ pState[tag] = "Terminal" =>
                  /\ CountIn(pProduced[tag], TerminalTypes) = 1
                  /\ pProduced[tag][Len(pProduced[tag])] \in TerminalTypes
            /\ pState[tag] # "Terminal" =>
                  CountIn(pProduced[tag], TerminalTypes) = 0)
    /\ [][\A p, q \in Tags : (p # q /\ Touches(q)) => ~Touches(p)]_vars

\* two pollers overlapped in time: the first one timed out at its own
\* deadline although the second one, constructed later, received a WARNING
\* and ended with a SUCCESS meanwhile
C20_Witness ==
    \E p, q \in Tags :
        /\ p # q
        /\ pState[p] = "Terminal" /\ pState[q] = "Terminal"
        /\ pBorn[p] < pBorn[q]
        /\ pBorn[q] <= pEnd[p]
        /\ pEnd[q] <= pEnd[p]
        /\ pProduced[p] = <<"TIMEOUT">>
        /\ pProduced[q] = <<"WARNING", "SUCCESS">>

\* ------------------------------------------------ what publish reports
\* C26: a TIMEOUT is reported as 'publish status unknown' and as nothing
\* else, nothing but a TIMEOUT is reported that way, and a session in which
\* the poller yielded TIMEOUT has raised no exception
C26_TimeoutIsUnknown ==
    /\ Len(surfaced) = Len(produced)
    /\ \A k \in 1..Len(produced) :
          /\ produced[k] = "TIMEOUT" <=> surfaced[k] = "unknown"
          /\ produced[k] = "TIMEOUT" =>
                ~pollError /\ pubPc \in {"drain", "returned"}

\* a warning was reported, then the poller timed out and the call returned
\* after reporting the status as unknown
C26_Witness ==
    /\ pubPc = "returned"
    /\ produced = <<"WARNING", "TIMEOUT">>
    /\ surfaced = <<"warning", "unknown">>

\* C27 as stated: a call in which the server answered ERROR does not return
\* normally, and a communication error while polling ends the call with
\* PublishAssignmentError
C27_RaisesOnAnyError ==
    /\ pubPc = "returned" =>
          \A k \in 1..Len(produced) : produced[k] # "ERROR"
    /\ pollError => pubPc = "raised"

C30_PollerBeforeEvent ==
    /\ pubPc \in {"log", "drain", "returned"} => pollerState # "None"
    /\ pubPc = "log" =>
          pollerState = "Polling" /\ produced = << >> /\ arrived = << >>
    /\ arrived # << >> => pollerState # "None"
    /\ (pubPc \in {"drain", "returned"} /\ InTimeTypes(arrived) # << >>) =>
          produced # << >> /\ produced[1] = InTimeTypes(arrived)[1]
    /\ (pubPc = "raised" /\ ~pollError) =>
          produced = << >> /\ surfaced = << >>

\* logging the event failed after the poller had been waiting for a while:
\* a message for the tag arrived in time and nothing was produced
C30_Witness ==
    /\ pubPc = "raised"
    /\ ~pollError
    /\ pollerState = "Polling"
    /\ elapsed >= 1
    /\ \E k \in 1..Len(arrived) :
          arrived[k].tag = pollerTag /\ arrived[k].at <= timeout
    /\ produced = << >>

\* ------------------------------------------------------------ cancellation
Cancelled == cancelledAt >= 0

\* C21: once the client has cancelled a Polling poller, the poller is
\* Terminal, exactly like one that timed out, and stays so; from then on no
\* response is produced and nothing is reported, whatever arrives for the
\* tag; and the caller's loop ends as it does after a timeout
C21_NothingAfterCancel ==
    /\ [](Cancelled => pollerState = "Terminal")
    /\ [](Cancelled => \A k \in 1..Len(produced) : produced[k] = "WARNING")
    /\ [][Cancelled => produced' = produced /\ surfaced' = surfaced]_vars
    /\ [][(Cancelled /\ pubPc' # pubPc) => pubPc' = "returned"]_vars

\* the poller was cancelled after it had produced a WARNING; a SUCCESS for
\* its tag arrived afterwards, within the timeout, and was never produced
C21_Witness ==
    /\ cancelledAt = 1
    /\ pubPc = "returned"
    /\ produced = <<"WARNING">>
    /\ Len(arrived) >= 2
    /\ arrived[2].tag = pollerTag
    /\ arrived[2].type = "SUCCESS"
    /\ arrived[2].at <= timeout

\* the batch that was asked to stop and the target that was next then
CancelRun == ((cancelAt - 1) \div NumTargets) + 1
CancelTarget == ((cancelAt - 1) % NumTargets) + 1

\* the current batch is the one that was asked to stop
StopRequested == cancelAt > 0 /\ run = CancelRun

C28_PathInsertedVerbatim ==
    url # << >> =>
        /\ Len(url) = 7 + Len(urlArgs.path)
        /\ SubSeq(url, 1, 7) =
              <<"ssh://", urlArgs.user, "@", urlArgs.host, ":",
                urlArgs.port, "/">>
        /\ SubSeq(url, 8, Len(url)) = urlArgs.path
        /\ (urlArgs.path # << >> /\ Head(urlArgs.path) = "/") =>
              url[7] = "/" /\ url[8] = "/"
        /\ urlArgs = ExampleArgs =>
              url = <<"ssh://", "prof", "@", "cs.example.edu", ":", "2222",
                      "/", "/", "home/prof/class/hw1">>

\* the URL of the example has been built, with its double slash
C28_Witness ==
    /\ urlArgs = ExampleArgs
    /\ Len(url) = 9
    /\ url[7] = "/"
    /\ url[8] = "/"

\* the threads that are inside fetch_assignment or refresh on the shared
\* window information
InCriticalSection == {t \in Threads : tpc[t] \in {"locked", "fetched"}}

\* C25: FetchThread instances that share one ClassWindowInfo are never in
\* their critical sections (fetch_assignment, then refresh) at the same time
C25_MutualExclusion == Cardinality(InCriticalSection) <= 1

\* ------------------------------- targets synchronized by concurrent workers
ConcFrame ==
    UNCHANGED <<pollVars, cacheVars, multiVars, cancelVars, urlVars,
                threadVars, pubVars, fsubVars, guiVars>>

\* local path of a target: the reports directory of the assignment for
\* target 1, the student's own directory under submissions for the others
PathOf(i) == IF i = 1 THEN <<"reports">> ELSE <<"submissions", i>>

\* entry of a batch whose targets are handed to concurrent workers
conc_start ==
    /\ syncPc \in {"idle", "done"}
    /\ run < MaxRuns
    /\ run' = run + 1
    /\ syncPc' = "concurrent"
    /\ nextTarget' = 1
    /\ prevOutcomes' = outcomes
    /\ prevSnapshot' = startSnapshot
    /\ outcomes' = << >>
    /\ cloneCalls' = Zero
    /\ pullCalls' = Zero
    /\ headReads' = Zero
    /\ raised' = {}
    /\ startFs' = fs
    /\ startHead' = localHead
    /\ startSnapshot' = snapshot
    /\ cStatus' = [i \in Targets |-> "pending"]
    /\ cOutcome' = [i \in Targets |-> Outcome("none", "none")]
    /\ cInflight' = Zero
    /\ cOrder' = << >>
    /\ UNCHANGED <<fs, localHead, snapshot>>
    /\ ConcFrame

\* the variant in which a worker takes a target whatever its status
conc_begin_unclaimed(i) ==
    /\ syncPc = "concurrent"
    /\ cStatus[i] \in {"pending", "inflight"}
    /\ Decision(fs[i], localHead[i], snapshot[i]) = "Clone"
    /\ cStatus' = [cStatus EXCEPT ![i] = "inflight"]
    /\ cInflight' = [cInflight EXCEPT ![i] = @ + 1]
    /\ cloneCalls' = [cloneCalls EXCEPT ![i] = @ + 1]
    /\ UNCHANGED <<fs, localHead, snapshot, syncPc, nextTarget, run, outcomes,
                   pullCalls, headReads, raised, startFs, startHead,
                   startSnapshot, prevOutcomes, prevSnapshot, cOutcome,
                   cOrder>>
    /\ ConcFrame

\* a worker takes a pending target and does what fetch_student_submission
\* does for it up to the transport call
conc_begin(i) ==
    /\ syncPc = "concurrent"
    /\ cStatus[i] = "pending"
    /\ LET d == Decision(fs[i], localHead[i], snapshot[i]) IN
          /\ cStatus' = [cStatus EXCEPT ![i] =
                            IF d \in {"Clone", "Pull"} THEN "inflight"
                                                       ELSE "done"]
          /\ cInflight' = [cInflight EXCEPT ![i] =
                              IF d \in {"Clone", "Pull"} THEN @ + 1 ELSE @]
          /\ cloneCalls' = [cloneCalls EXCEPT ![i] =
                               IF d = "Clone" THEN @ + 1 ELSE @]
          /\ pullCalls' = [pullCalls EXCEPT ![i] =
                              IF d = "Pull" THEN @ + 1 ELSE @]
          /\ headReads' = [headReads EXCEPT ![i] =
                              IF is_non_bare_repo(i) THEN @ + 1 ELSE @]
          /\ cOutcome' = [cOutcome EXCEPT ![i] =
                CASE d = "NoOp" -> Outcome("Skipped", "up to date")
                  [] d = "Error" /\ fs[i] = "dir" ->
                        Outcome("Failed", "not a git repository")
                  [] d = "Error" /\ fs[i] = "broken" ->
                        Outcome("Failed", "error reading")
                  [] OTHER -> @]
          /\ cOrder' = IF d \in {"Clone", "Pull"} THEN cOrder
                                                  ELSE Append(cOrder, i)
    /\ UNCHANGED <<fs, localHead, snapshot, syncPc, nextTarget, run, outcomes,
                   raised, startFs, startHead, startSnapshot, prevOutcomes,
                   prevSnapshot>>
    /\ ConcFrame

\* the clone or pull of a target returns or raises GkeepException
conc_finish(i) ==
    /\ syncPc = "concurrent"
    /\ cStatus[i] = "inflight"
    /\ cInflight[i] >= 1
    /\ \E ok \in BOOLEAN :
          /\ fs' = IF ok THEN [fs EXCEPT ![i] = "repo"] ELSE fs
          /\ localHead' = IF ok THEN [localHead EXCEPT ![i] = snapshot[i]]
                                ELSE localHead
          /\ raised' = IF ok THEN raised ELSE raised \cup {i}
          /\ cOutcome' = [cOutcome EXCEPT ![i] =
                CASE ok /\ cloneCalls[i] >= 1 -> Outcome("Cloned", "success")
                  [] ok /\ cloneCalls[i] = 0 -> Outcome("Pulled", "success")
                  [] ~ok /\ cloneCalls[i] >= 1 ->
                        Outcome("Failed", "error cloning")
                  [] ~ok /\ cloneCalls[i] = 0 ->
                        Outcome("Failed", "error pulling")]
    /\ cInflight' = [cInflight EXCEPT ![i] = @ - 1]
    /\ cStatus' = [cStatus EXCEPT ![i] =
                      IF cInflight[i] = 1 THEN "done" ELSE "inflight"]
    /\ cOrder' = IF cInflight[i] = 1 THEN Append(cOrder, i) ELSE cOrder
    /\ UNCHANGED <<snapshot, syncPc, nextTarget, run, outcomes, cloneCalls,
                   pullCalls, headReads, startFs, startHead, startSnapshot,
                   prevOutcomes, prevSnapshot>>
    /\ ConcFrame

\* the variant that reports the outcomes in the order the work was completed
conc_report_as_completed ==
    /\ syncPc = "concurrent"
    /\ \A i \in Targets : cStatus[i] = "done"
    /\ outcomes' = [k \in 1..NumTargets |-> cOutcome[cOrder[k]]]
    /\ syncPc' = "done"
    /\ nextTarget' = NumTargets + 1
    /\ UNCHANGED <<fs, localHead, snapshot, run, cloneCalls, pullCalls,
                   headReads, raised, startFs, startHead, startSnapshot,
                   prevOutcomes, prevSnapshot, concVars>>
    /\ ConcFrame

\* every target is done: the outcomes are reported in the order the targets
\* were supplied
conc_report ==
    /\ syncPc = "concurrent"
    /\ \A i \in Targets : cStatus[i] = "done"
    /\ outcomes' = [k \in 1..NumTargets |-> cOutcome[k]]
    /\ syncPc' = "done"
    /\ nextTarget' = NumTargets + 1
    /\ UNCHANGED <<fs, localHead, snapshot, run, cloneCalls, pullCalls,
                   headReads, raised, startFs, startHead, startSnapshot,
                   prevOutcomes, prevSnapshot, concVars>>
    /\ ConcFrame

\* a batch is run either by the sequential loop of
\* fetch_assignment_submissions or by concurrent workers
ConcNext ==
    \/ BatchStart
    \/ FetchReports
    \/ \E i \in Targets : fetch_student_submission(i)
    \/ conc_start
    \/ \E i \in Targets : conc_begin(i)
    \/ \E i \in Targets : conc_finish(i)
    \/ conc_report

ConcSpec == BatchInit /\ [][ConcNext]_vars

InFlight == {i \in Targets : cStatus[i] = "inflight"}

AtPrecondition == pubPc \in {"parse", "connect", "checkdir"}

\* C31: when parsing the configuration, connecting or the test of the
\* assignment directory fails, publish_assignment raises with no PUBLISH
\* event logged and no poller created or drained
C31_NoEventOnFailedPrecondition ==
    /\ [](AtPrecondition => eventLog = 0 /\ pollerState = "None")
    /\ []((pubPc = "raised" /\ pollerState = "None") =>
             /\ eventLog = 0
             /\ arrived = << >>
             /\ produced = << >>
             /\ surfaced = << >>)
    /\ [][(AtPrecondition /\ pubPc' = "raised") =>
             /\ eventLog' = 0
             /\ pollerState' = "None"
             /\ produced' = << >>]_vars

\* the test of the assignment directory failed and the call has raised
C31_Witness ==
    /\ pubPc = "raised"
    /\ pollerState = "None"
    /\ eventLog = 0
    /\ ~pollError

\* transport calls and HEAD reads the current batch has made for target i
Touched(i) == cloneCalls[i] + pullCalls[i] + headReads[i]

\* C33: in one assignment's fetch the reports repository (target 1) is
\* synchronized first, cloned if its directory is absent and otherwise
\* pulled only if its hash differs; then every student is processed exactly
\* once in roster order, also when the reports repository failed
C33_ReportsThenRoster ==
    /\ [](syncPc = "running" => nextTarget = Len(outcomes) + 1)
    /\ [](\A i \in Targets : (i > 1 /\ Touched(i) > 0) => Processed(1))
    /\ [](\A i \in Targets : cloneCalls[i] + pullCalls[i] <= 1)
    /\ [](Processed(1) =>
             /\ cloneCalls[1] = 1 <=> startFs[1] = "absent"
             /\ pullCalls[1] = 1 <=>
                   (startFs[1] = "repo" /\ startHead[1] # startSnapshot[1]))
    /\ [](syncPc = "done" => Len(outcomes) = NumTargets)
    /\ [][\A i \in Targets :
             Touched(i)' > Touched(i) =>
                 Len(outcomes) = i - 1 /\ Len(outcomes') = i]_vars
    /\ [][Len(outcomes') \in {0, Len(outcomes), Len(outcomes) + 1}]_vars

\* the reports repository failed and every student was cloned after it
C33_Witness ==
    /\ syncPc = "done"
    /\ outcomes[1].tag = "Failed"
    /\ \A i \in Targets : i > 1 => outcomes[i].tag = "Cloned"

\* the assignments the call is to fetch
Wanted == IF fsName = "all" THEN fsList ELSE <<fsName>>

UnknownName == fsName # "all" /\ fsName \notin Range(fsList)

C34_CreateOnlyWhenConfirmed ==
    /\ [][(fsPc = "dir" /\ destDir) =>
             destDir' /\ asked' = asked /\ fsPc' = "list"]_vars
    /\ [][(~destDir /\ destDir') => asked' = <<TRUE>>]_vars
    /\ [](asked = <<FALSE>> =>
             /\ fsPc = "raised"
             /\ ~destDir
             /\ fsFetched = << >>
             /\ fsTransport = 0)
    /\ [](Len(asked) <= 1)

\* the user declined and the call has raised
C34_Witness ==
    /\ asked = <<FALSE>>
    /\ fsPc = "raised"
    /\ ~destDir

\* C35 as stated: is_fetched answers False without a fetched path; with
\* one, and a local repository whose HEAD can be read, every call answers
\* True or False, True only when the local HEAD hash equals the server hash
\* and False whenever it differs, whether the hash came from the cache or
\* from git and however often the call is repeated
C35_AnswerIsHashEquality ==
    \A w \in Workers :
        Finished(w) =>
            /\ ~fetchedPathKnown => wresult[w] = "False"
            /\ (fetchedPathKnown /\ ~git_head_hash_raises(wpath[w])) =>
                  /\ wresult[w] \in {"True", "False"}
                  /\ wresult[w] = "True" =>
                        localHead[wpath[w]] = snapshot[wpath[w]]
                  /\ localHead[wpath[w]] # snapshot[wpath[w]] =>
                        wresult[w] = "False"

\* the threads that were started and whose run has not returned
Running == {t \in Threads : tpc[t] \in {"started", "locked", "fetched",
                                        "refreshed"}}

\* the threads that were started and whose finished signal has not been
\* handled by show_success_fetch_message
Unhandled == {t \in Threads : tpc[t] \notin {"none", "done"}}

\* the fetch message lost lines in this step
MessageCleared ==
    ~(/\ Len(fetch_message') >= Len(fetch_message)
      /\ SubSeq(fetch_message', 1, Len(fetch_message)) = fetch_message)

C37_ConnectedHasInfo == connected => gInfo # 0

\* C36 as stated: once ClassWindowInfo is built, and so after every
\* refresh(), the assignment table and the submission table, if one is
\* shown, are built from the snapshot the window holds, and class_list has
\* one entry per class
C36_RefreshShowsNewSnapshot ==
    wPc = "ready" =>
        /\ wInfo = gInfo
        /\ aTable.ver = wInfo
        /\ sTable # NoTable => sTable.ver = wInfo
        /\ Len(class_list) = Len(ClassNames)

\* what a click on column col of a table sorted as t gives
Clicked(t, col) ==
    [t EXCEPT !.col = col,
              !.order = IF t.col = col THEN 1 - t.order ELSE 0]

\* C39 as stated: a click on a column header of a table sorts that table by
\* the column, flipping the direction when the table is sorted by that
\* column already and in direction 0 otherwise; the other table is left as
\* it is, whatever clicks came before on either table
C39_TablesSortIndependently ==
    /\ [][\A col \in 0..1 :
             change_assignments_sorting_order(col) =>
                 aTable' = Clicked(aTable, col) /\ sTable' = sTable]_vars
    /\ [][\A col \in 0..2 :
             change_submissions_sorting_order(col) =>
                 sTable' = Clicked(sTable, col) /\ aTable' = aTable]_vars

====
